---- MODULE Spec2Model ----
(***************************************************************************)
(* A model of conjure's InputDataABC batch (src/conjure/input_data.py),    *)
(* its editing API, the question assembly of questions() / to_survey(),    *)
(* the agent construction of AgentConstructionMixin and the error logging  *)
(* of QuestionErrorLogger with its module-level global logger.            *)
(*                                                                         *)
(* Python lists are sequences; list index k of the source is position k+1  *)
(* here.  Python dicts are functions whose DOMAIN is the key set.  An      *)
(* Optional value is a sequence of length 0 (None) or 1 (the value).       *)
(***************************************************************************)
EXTENDS Integers, Sequences, FiniteSets, TLC

VARIABLES
    batch,           \* the InputDataABC instance under edit
    errors,          \* batch.question_error_logger.errors
    global_logger,   \* which logger _global_logger refers to: "self" or "other"
    other_errors,    \* the errors of the logger of the most recently constructed other batch
    last,            \* the last call: its name, whether it raised, what it returned
    ncalls           \* number of API calls made so far

vars == <<batch, errors, global_logger, other_errors, last, ncalls>>

----------------------------------------------------------------------------
(* Bounds and input universes *)

\* Number of API calls explored after construction.
MaxCalls == 2

\* The names the file reader returns for the constructed batch.
InitNames == <<"a", "b", "c">>

\* Every name a caller passes to the editing API: the three initial names and a fresh one.
NamePool == {"a", "b", "c", "d"}

\* The text of the question originally named n.
TextOf(n) == "text_" \o n

\* The raw responses the file reader returns, one column per question.
RawInput == <<(<<"1", "missing">>), (<<"2", "1">>), (<<"missing", "2">>)>>

None == <<>>
Some(x) == <<x>>

EmptyMap == [v \in {} |-> v]
SwapMap == ("1" :> "2") @@ ("2" :> "1")
ChainMap == ("2" :> "1") @@ ("1" :> "missing")

\* The answer_codebook arguments of the construction.
CodebookInputs ==
    { [n \in {} |-> EmptyMap],
      [n \in {"a", "b", "c"} |-> IF n = "b" THEN ChainMap ELSE SwapMap] }

\* edsl's Question.available(): the registered question types.
Registry == {"free_text", "multiple_choice"}

\* The type names a caller passes to modify_question_type.
TypeInputs == Registry \cup {"poop"}

\* The option lists a caller passes as new_options (None: not passed).
OptionInputs == {None, Some(<<"1", "2">>)}

\* The question_types and question_options the construction leaves the three
\* questions with: all assembling, and one or two that cannot be assembled.
InitKinds ==
    { <<(<<"multiple_choice", Some(<<"1", "2">>)>>), (<<"multiple_choice", Some(<<"1", "2">>)>>),
        (<<"free_text", None>>)>>,
      <<(<<"free_text", None>>), (<<"multiple_choice", Some(<<"1", "2">>)>>),
        (<<"multiple_choice", None>>)>>,
      <<(<<"multiple_choice", None>>), (<<"free_text", None>>),
        (<<"multiple_choice", Some(<<"1", "2">>)>>)>>,
      <<(<<"multiple_choice", Some(<<"1", "2">>)>>), (<<"multiple_choice", None>>),
        (<<"multiple_choice", None>>)>> }

----------------------------------------------------------------------------
(* Helpers for Python list and dict operations *)

Range(s) == {s[i] : i \in DOMAIN s}

\* list.index(x): the first position holding x.
Index(s, x) == CHOOSE i \in DOMAIN s : s[i] = x /\ \A j \in 1..(i - 1) : s[j] # x

\* list.pop(idx)
Pop(s, idx) == [i \in 1..(Len(s) - 1) |-> IF i < idx THEN s[i] ELSE s[i + 1]]

\* dict.pop(key, default): the dict without the key.
DictPop(d, k) == [n \in DOMAIN d \ {k} |-> d[n]]

\* dict.pop(key, default): the value returned.
DictGet(d, k, default) == IF k \in DOMAIN d THEN d[k] ELSE default

\* d[k] = v
DictSet(d, k, v) == [n \in DOMAIN d \cup {k} |-> IF n = k THEN v ELSE d[n]]

\* [f(x) for x in s]
MapSeq(s, F(_)) == [i \in DOMAIN s |-> F(s[i])]

RECURSIVE SelectPositions(_, _, _)
\* [s[i] for i in positions if i in positions-to-keep], in order
SelectPositions(s, keep, i) ==
    IF i > Len(s) THEN <<>>
    ELSE (IF i \in keep THEN <<s[i]>> ELSE <<>>) \o SelectPositions(s, keep, i + 1)

----------------------------------------------------------------------------
(* Construction *)

\* apply_codebook looking every substituted value up again
apply_codebook_chained(b) ==
    [b EXCEPT !.raw_data =
        [index \in DOMAIN b.raw_data |->
            IF /\ index \in DOMAIN b.question_names
               /\ b.question_names[index] \in DOMAIN b.answer_codebook
            THEN LET cb == b.answer_codebook[b.question_names[index]] IN
                 MapSeq(b.raw_data[index],
                        LAMBDA r : DictGet(cb, DictGet(cb, r, r), DictGet(cb, r, r)))
            ELSE b.raw_data[index]]]

\* apply_codebook: substitute, in every column whose name is a codebook key.
apply_codebook(b) ==
    [b EXCEPT !.raw_data =
        [index \in DOMAIN b.raw_data |->
            IF /\ index \in DOMAIN b.question_names
               /\ b.question_names[index] \in DOMAIN b.answer_codebook
            THEN MapSeq(b.raw_data[index],
                        LAMBDA r : DictGet(b.answer_codebook[b.question_names[index]], r, r))
            ELSE b.raw_data[index]]]

\* InputDataABC.__init__ once its checks have passed: store the lists, apply the codebook.
\* owner is a history field: for each parallel list, the initial position of the
\* question each element was constructed for.
construct(names, texts, types, options, data, codebook, owner) ==
    apply_codebook(
        [question_names |-> names,
         question_texts |-> texts,
         question_types |-> types,
         question_options |-> options,
         raw_data |-> data,
         answer_codebook |-> codebook,
         owner |-> owner])

IdOwner(n) ==
    LET ids == [i \in 1..n |-> i] IN
    [names |-> ids, texts |-> ids, types |-> ids, options |-> ids, data |-> ids]

\* The exception a call ended with; NoException: it returned.
NoException == "none"
NotFound == "ValueError: Question not found."
NotInList == "ValueError: is not in list"
NotAvailable == "ValueError: Question type is not available."
IndexError == "IndexError: list index out of range"

Raised(r) == r.raised # NoException

NoReturn == [survey |-> <<>>, results |-> <<>>, agents |-> <<>>, selected |-> None]

Called(op, raised) == [op |-> op, raised |-> raised] @@ NoReturn

Init ==
    /\ \E kinds \in InitKinds, cb \in CodebookInputs :
          batch = construct(InitNames,
                            [i \in DOMAIN InitNames |-> TextOf(InitNames[i])],
                            [i \in DOMAIN InitNames |-> kinds[i][1]],
                            [i \in DOMAIN InitNames |-> kinds[i][2]],
                            RawInput, cb, IdOwner(Len(InitNames)))
    /\ errors = <<>>
    /\ global_logger = "self"
    /\ other_errors = <<>>
    /\ last = Called("init", NoException)
    /\ ncalls = 0

----------------------------------------------------------------------------
(* The editing API.  Each operator returns the batch after the call and    *)
(* the exception the call ended with (NoException: it returned).           *)


\* rename moving the codebook entry before it looks for the old name
rename_moves_entry_first(b, old_name, new_name, ignore_missing) ==
    LET moved == [b EXCEPT !.answer_codebook =
                     DictSet(DictPop(@, old_name), new_name,
                             DictGet(@, old_name, EmptyMap))]
    IN  IF old_name \notin Range(b.question_names)
        THEN [b |-> moved, raised |-> IF ignore_missing THEN NoException ELSE NotFound]
        ELSE LET idx == Index(b.question_names, old_name) IN
             [b |-> [moved EXCEPT !.question_names = [@ EXCEPT ![idx] = new_name]],
              raised |-> NoException]

\* InputDataABC.rename
rename(b, old_name, new_name, ignore_missing) ==
    IF old_name \notin Range(b.question_names)
    THEN [b |-> b, raised |-> IF ignore_missing THEN NoException ELSE NotFound]
    ELSE LET idx == Index(b.question_names, old_name) IN
         [b |-> [b EXCEPT
                   !.question_names = [@ EXCEPT ![idx] = new_name],
                   !.answer_codebook =
                       DictSet(DictPop(@, old_name), new_name,
                               DictGet(@, old_name, EmptyMap))],
          raised |-> NoException]

RECURSIVE rename_questions(_, _, _)
\* InputDataABC.rename_questions: rename_dict is the dict's items in insertion order.
rename_questions(b, rename_dict, ignore_missing) ==
    IF rename_dict = <<>> THEN [b |-> b, raised |-> NoException]
    ELSE LET r == rename(b, Head(rename_dict)[1], Head(rename_dict)[2], ignore_missing) IN
         IF Raised(r) THEN r
         ELSE rename_questions(r.b, Tail(rename_dict), ignore_missing)

\* _drop_question without the pop of question_options
_drop_question_skips_options(b, question_name, ignore_missing) ==
    IF question_name \notin Range(b.question_names)
    THEN [b |-> b, raised |-> IF ignore_missing THEN NoException ELSE NotFound]
    ELSE LET idx == Index(b.question_names, question_name) IN
         [b |-> [b EXCEPT
                   !.question_names = Pop(@, idx),
                   !.question_texts = Pop(@, idx),
                   !.question_types = Pop(@, idx),
                   !.raw_data = Pop(@, idx),
                   !.answer_codebook = DictPop(@, question_name),
                   !.owner = [names |-> Pop(@.names, idx),
                              texts |-> Pop(@.texts, idx),
                              types |-> Pop(@.types, idx),
                              options |-> @.options,
                              data |-> Pop(@.data, idx)]],
          raised |-> NoException]

\* _drop_question popping the last question of that name and keeping its codebook entry
_drop_question_last_match(b, question_name, ignore_missing) ==
    IF question_name \notin Range(b.question_names)
    THEN [b |-> b, raised |-> IF ignore_missing THEN NoException ELSE NotFound]
    ELSE LET idx == CHOOSE i \in DOMAIN b.question_names :
                        /\ b.question_names[i] = question_name
                        /\ \A j \in DOMAIN b.question_names :
                              b.question_names[j] = question_name => j <= i
         IN
         [b |-> [b EXCEPT
                   !.question_names = Pop(@, idx),
                   !.question_texts = Pop(@, idx),
                   !.question_types = Pop(@, idx),
                   !.question_options = Pop(@, idx),
                   !.raw_data = Pop(@, idx),
                   !.owner = [names |-> Pop(@.names, idx),
                              texts |-> Pop(@.texts, idx),
                              types |-> Pop(@.types, idx),
                              options |-> Pop(@.options, idx),
                              data |-> Pop(@.data, idx)]],
          raised |-> NoException]

\* InputDataABC._drop_question
_drop_question(b, question_name, ignore_missing) ==
    IF question_name \notin Range(b.question_names)
    THEN [b |-> b, raised |-> IF ignore_missing THEN NoException ELSE NotFound]
    ELSE LET idx == Index(b.question_names, question_name) IN
         [b |-> [b EXCEPT
                   !.question_names = Pop(@, idx),
                   !.question_texts = Pop(@, idx),
                   !.question_types = Pop(@, idx),
                   !.question_options = Pop(@, idx),
                   !.raw_data = Pop(@, idx),
                   !.answer_codebook = DictPop(@, question_name),
                   !.owner = [names |-> Pop(@.names, idx),
                              texts |-> Pop(@.texts, idx),
                              types |-> Pop(@.types, idx),
                              options |-> Pop(@.options, idx),
                              data |-> Pop(@.data, idx)]],
          raised |-> NoException]

RECURSIVE drop(_, _)
\* InputDataABC.drop
drop(b, question_names_to_drop) ==
    IF question_names_to_drop = <<>> THEN [b |-> b, raised |-> NoException]
    ELSE LET r == _drop_question(b, Head(question_names_to_drop), FALSE) IN
         IF Raised(r) THEN r
         ELSE drop(r.b, Tail(question_names_to_drop))

RECURSIVE keep_loop(_, _, _, _)
\* the loop of InputDataABC.keep over the copy all_question_names
keep_loop(b, all_question_names, question_names_to_keep, ignore_missing) ==
    IF all_question_names = <<>> THEN [b |-> b, raised |-> NoException]
    ELSE LET qn == Head(all_question_names)
             r == IF qn \notin question_names_to_keep
                  THEN _drop_question(b, qn, ignore_missing)
                  ELSE [b |-> b, raised |-> NoException]
         IN IF Raised(r) THEN r
            ELSE keep_loop(r.b, Tail(all_question_names), question_names_to_keep,
                           ignore_missing)

\* keep looping over all_question_names[1:]
keep_skips_first(b, question_names_to_keep, ignore_missing) ==
    IF b.question_names = <<>> THEN [b |-> b, raised |-> NoException]
    ELSE keep_loop(b, Tail(b.question_names), question_names_to_keep, ignore_missing)

\* InputDataABC.keep
keep(b, question_names_to_keep, ignore_missing) ==
    keep_loop(b, b.question_names, question_names_to_keep, ignore_missing)

\* _drop_rows keeping the rows at indices instead of dropping them
_drop_rows_keeps_indices(b, indices) ==
    [b EXCEPT !.raw_data =
        [c \in DOMAIN b.raw_data |->
            SelectPositions(b.raw_data[c], DOMAIN b.raw_data[c] \cap indices, 1)]]

\* InputDataABC._drop_rows: indices are positions here (source index + 1).
_drop_rows(b, indices) ==
    [b EXCEPT !.raw_data =
        [c \in DOMAIN b.raw_data |->
            SelectPositions(b.raw_data[c], DOMAIN b.raw_data[c] \ indices, 1)]]

\* InputDataABC._missing_indices
_missing_indices(b, question_name) ==
    LET idx == Index(b.question_names, question_name) IN
    {i \in DOMAIN b.raw_data[idx] : b.raw_data[idx][i] = "missing"}

\* InputDataABC.drop_missing: names.index raises ValueError for an unknown name.
drop_missing(b, question_name) ==
    IF question_name \notin Range(b.question_names)
    THEN [b |-> b, raised |-> NotInList]
    ELSE [b |-> _drop_rows(b, _missing_indices(b, question_name)), raised |-> NoException]


----------------------------------------------------------------------------
(* Question assembly and error logging *)

\* The question types that need options to be assembled.
RequiresOptions == {"multiple_choice"}

\* RawQuestion.to_question raises: a type that requires options has none.
to_question_raises(rq) ==
    /\ rq.question_type \in RequiresOptions
    /\ \/ rq.question_options = None
       \/ rq.question_options[1] = <<>>

\* InputDataABC.raw_question (question_names_to_question_text is not passed: None)
raw_question(b, index) ==
    [question_type |-> b.question_types[index],
     question_name |-> b.question_names[index],
     question_text |-> b.question_texts[index],
     responses |-> b.raw_data[index],
     question_options |-> b.question_options[index]]

\* InputDataABC.raw_questions: one RawQuestion per name, looked up by names.index
raw_questions(b) ==
    [k \in DOMAIN b.question_names |->
        raw_question(b, Index(b.question_names, b.question_names[k]))]

\* QuestionErrorLogger.log_question_error: the entry appended to errors
error_entry(question_name, error_type) ==
    [question_name |-> question_name, error_type |-> error_type]

\* InputDataABC.questions: the list of yielded values, None for a failed assembly
questions(b) ==
    LET rqs == raw_questions(b) IN
    [k \in DOMAIN rqs |-> IF to_question_raises(rqs[k]) THEN None ELSE Some(rqs[k])]

\* QuestionErrorLogger.get_error_count
get_error_count(errs) == Len(errs)

\* QuestionErrorLogger.get_failed_questions
get_failed_questions(errs) == [i \in DOMAIN errs |-> errs[i].question_name]

\* QuestionErrorLogger.has_errors
has_errors(errs) == Len(errs) > 0

\* the entries questions() hands to log_creation_error, in order
creation_errors(b) ==
    LET rqs == raw_questions(b) IN
    MapSeq(SelectPositions(rqs, {k \in DOMAIN rqs : to_question_raises(rqs[k])}, 1),
           LAMBDA rq : error_entry(rq.question_name, "Creation Failed"))

\* InputDataABC.to_survey: the questions added to the Survey
to_survey(b) ==
    LET qs == questions(b) IN
    MapSeq(SelectPositions(qs, {k \in DOMAIN qs : qs[k] # None}, 1), LAMBDA q : q[1])

\* modify_question_type checking the registry only after it has set the new type
modify_question_type_checks_late(b, errs, question_name, new_type, drop_options, new_options) ==
    IF question_name \notin Range(b.question_names)
    THEN [b |-> b, errors |-> errs, raised |-> NotInList]
    ELSE
    LET idx == Index(b.question_names, question_name)
        old_type == b.question_types[idx]
        old_options == b.question_options[idx]
        b1 == [b EXCEPT !.question_types[idx] = new_type]
        b2 == IF drop_options THEN [b1 EXCEPT !.question_options[idx] = None] ELSE b1
        b3 == IF new_options # None
              THEN [b2 EXCEPT !.question_options[idx] = new_options]
              ELSE b2
    IN  IF new_type \notin Registry
        THEN [b |-> b3, errors |-> errs, raised |-> NotAvailable]
        ELSE IF to_question_raises(raw_question(b3, idx))
             THEN [b |-> [b3 EXCEPT !.question_types[idx] = old_type,
                                    !.question_options[idx] = old_options],
                   errors |-> Append(errs, error_entry(question_name,
                                         "Question Type Modification Failed")),
                   raised |-> NoException]
             ELSE [b |-> b3, errors |-> errs, raised |-> NoException]

\* modify_question_type reverting the type but not the options after a failed assembly
modify_question_type_reverts_type_only(b, errs, question_name, new_type, drop_options, new_options) ==
    IF question_name \notin Range(b.question_names)
    THEN [b |-> b, errors |-> errs, raised |-> NotInList]
    ELSE
    LET idx == Index(b.question_names, question_name)
        old_type == b.question_types[idx]
    IN  IF new_type \notin Registry
        THEN [b |-> b, errors |-> errs, raised |-> NotAvailable]
        ELSE
        LET b1 == [b EXCEPT !.question_types[idx] = new_type]
            b2 == IF drop_options THEN [b1 EXCEPT !.question_options[idx] = None] ELSE b1
            b3 == IF new_options # None
                  THEN [b2 EXCEPT !.question_options[idx] = new_options]
                  ELSE b2
        IN  IF to_question_raises(raw_question(b3, idx))
            THEN [b |-> [b3 EXCEPT !.question_types[idx] = old_type],
                  errors |-> Append(errs, error_entry(question_name,
                                        "Question Type Modification Failed")),
                  raised |-> NoException]
            ELSE [b |-> b3, errors |-> errs, raised |-> NoException]

\* modify_question_type applying drop_options after new_options
modify_question_type_drop_wins(b, errs, question_name, new_type, drop_options, new_options) ==
    IF question_name \notin Range(b.question_names)
    THEN [b |-> b, errors |-> errs, raised |-> NotInList]
    ELSE
    LET idx == Index(b.question_names, question_name)
        old_type == b.question_types[idx]
        old_options == b.question_options[idx]
    IN  IF new_type \notin Registry
        THEN [b |-> b, errors |-> errs, raised |-> NotAvailable]
        ELSE
        LET b1 == [b EXCEPT !.question_types[idx] = new_type]
            b2 == IF new_options # None
                  THEN [b1 EXCEPT !.question_options[idx] = new_options]
                  ELSE b1
            b3 == IF drop_options THEN [b2 EXCEPT !.question_options[idx] = None] ELSE b2
        IN  IF to_question_raises(raw_question(b3, idx))
            THEN [b |-> [b3 EXCEPT !.question_types[idx] = old_type,
                                   !.question_options[idx] = old_options],
                  errors |-> Append(errs, error_entry(question_name,
                                        "Question Type Modification Failed")),
                  raised |-> NoException]
            ELSE [b |-> b3, errors |-> errs, raised |-> NoException]

\* InputDataABC.modify_question_type: the batch and its own error log after the call
modify_question_type(b, errs, question_name, new_type, drop_options, new_options) ==
    IF question_name \notin Range(b.question_names)
    THEN [b |-> b, errors |-> errs, raised |-> NotInList]
    ELSE
    LET idx == Index(b.question_names, question_name)
        old_type == b.question_types[idx]
        old_options == b.question_options[idx]
    IN  IF new_type \notin Registry
        THEN [b |-> b, errors |-> errs, raised |-> NotAvailable]
        ELSE
        LET b1 == [b EXCEPT !.question_types[idx] = new_type]
            b2 == IF drop_options THEN [b1 EXCEPT !.question_options[idx] = None] ELSE b1
            b3 == IF new_options # None
                  THEN [b2 EXCEPT !.question_options[idx] = new_options]
                  ELSE b2
        IN  IF to_question_raises(raw_question(b3, idx))
            THEN [b |-> [b3 EXCEPT !.question_types[idx] = old_type,
                                   !.question_options[idx] = old_options],
                  errors |-> Append(errs, error_entry(question_name,
                                        "Question Type Modification Failed")),
                  raised |-> NoException]
            ELSE [b |-> b3, errors |-> errs, raised |-> NoException]

----------------------------------------------------------------------------
(* Selection and agents *)

\* InputDataABC.select: the new batch, built by the constructor from the picked lists
select(b, question_names) ==
    IF \E k \in DOMAIN question_names : question_names[k] \notin Range(b.question_names)
    THEN [selected |-> None, raised |-> NotInList]
    ELSE
    LET idxs == [k \in DOMAIN question_names |-> Index(b.question_names, question_names[k])]
        pick(list) == [k \in DOMAIN idxs |-> list[idxs[k]]]
    IN  [selected |->
            Some(construct(pick(b.question_names), pick(b.question_texts),
                           pick(b.question_types), pick(b.question_options),
                           pick(b.raw_data),
                           [qn \in Range(question_names) |->
                               DictGet(b.answer_codebook, qn, EmptyMap)],
                           [names |-> pick(b.owner.names), texts |-> pick(b.owner.texts),
                            types |-> pick(b.owner.types),
                            options |-> pick(b.owner.options),
                            data |-> pick(b.owner.data)])),
         raised |-> NoException]

\* InputDataABC.num_observations
num_observations(b) == Len(b.raw_data[1])

\* AgentConstructionMixin.agent(index - 1): the traits dict of the respondent at
\* position index of every column; a later duplicate name overwrites
agent(b, index) ==
    [qn \in Range(b.question_names) |->
        LET k == CHOOSE k \in DOMAIN b.question_names :
                    /\ b.question_names[k] = qn
                    /\ \A j \in DOMAIN b.question_names :
                          b.question_names[j] = qn => j <= k
        IN b.raw_data[k][index]]

\* The seed argument's default
DefaultSeed == "edsl"

MutuallyExclusive == "ValueError: You cannot pass both indices and sample_size/seed, as these are mutually exclusive."
EmptyIndices == "ValueError: Indices must be a non-empty list."
IndexTooLarge == "ValueError: Index is greater than the number of agents."
IndexNegative == "ValueError: Index is less than 0."
SampleTooLarge == "ValueError: Sample size is greater than the number of agents."

\* max and min of a non-empty list of integers
Max(s) == CHOOSE x \in Range(s) : \A y \in Range(s) : y <= x
Min(s) == CHOOSE x \in Range(s) : \A y \in Range(s) : x <= y

\* Python's truth value of an optional list and of an optional integer
TruthyList(x) == x # None /\ x[1] # <<>>
TruthyInt(x) == x # None /\ x[1] # 0

\* What random.sample(range(n), k) can return: k distinct indices in any order
Samples(n, k) ==
    { s \in [1..k -> 0..(n - 1)] : \A i, j \in 1..k : s[i] = s[j] => i = j }

\* _agents(indices): one agent per index, in the order of indices
_agents(b, indices) ==
    [agents |-> [i \in DOMAIN indices |-> agent(b, indices[i] + 1)], raised |-> NoException]

\* AgentConstructionMixin.to_agent_list; sample is what random.sample returns
\* when it is called
to_agent_list(b, indices, sample_size, seed, sample) ==
    IF TruthyList(indices) /\ (TruthyInt(sample_size) \/ seed # DefaultSeed)
    THEN [agents |-> <<>>, raised |-> MutuallyExclusive]
    ELSE IF TruthyList(indices) /\ Len(indices[1]) = 0
    THEN [agents |-> <<>>, raised |-> EmptyIndices]
    ELSE IF (TruthyList(indices) \/ indices = None) /\ b.raw_data = <<>>
    THEN [agents |-> <<>>, raised |-> IndexError]
    ELSE IF TruthyList(indices) /\ Max(indices[1]) >= num_observations(b)
    THEN [agents |-> <<>>, raised |-> IndexTooLarge]
    ELSE IF TruthyList(indices) /\ Min(indices[1]) < 0
    THEN [agents |-> <<>>, raised |-> IndexNegative]
    ELSE IF indices # None
    THEN _agents(b, indices[1])
    ELSE IF sample_size = None
    THEN _agents(b, [i \in 1..num_observations(b) |-> i - 1])
    ELSE IF sample_size[1] > num_observations(b)
    THEN [agents |-> <<>>, raised |-> SampleTooLarge]
    ELSE _agents(b, sample)


----------------------------------------------------------------------------
(* Statistics, classification and options.  QuestionStatsModule,           *)
(* QuestionTypeModule and QuestionOptionModule are imported by             *)
(* input_data.py from modules of the package; the operators follow the     *)
(* specification's sections 4.2 - 4.4 and the class constants.             *)

\* InputDataABC.NUM_UNIQUE_THRESHOLD
NUM_UNIQUE_THRESHOLD == 15

\* A fraction n/d, kept exact; 0 when the denominator is 0.
Frac(n, d) == IF d = 0 THEN [num |-> 0, den |-> 1] ELSE [num |-> n, den |-> d]

\* x >= y for fractions with positive denominators
FracGE(x, y) == x.num * y.den >= y.num * x.den

\* InputDataABC.FRAC_NUMERICAL_THRESHOLD = 0.8
FRAC_NUMERICAL_THRESHOLD == Frac(8, 10)

\* InputDataABC.MULTIPLE_CHOICE_OTHER_THRESHOLD = 0.5
MULTIPLE_CHOICE_OTHER_THRESHOLD == Frac(5, 10)

\* The K of top_5 / frac_obs_from_top_5
TopK == 5

\* The missing-value sentinel
MissingSentinel == "missing"

\* The responses that parse as a number: the decimal numerals up to 20.
ParsesAsNumber(r) == r \in {ToString(i) : i \in 0..20}

RECURSIVE Distinct(_, _)
\* the distinct elements of s that are not in seen, in first-occurrence order
Distinct(s, seen) ==
    IF s = <<>> THEN <<>>
    ELSE IF Head(s) \in seen THEN Distinct(Tail(s), seen)
    ELSE <<Head(s)>> \o Distinct(Tail(s), seen \cup {Head(s)})

\* number of positions of s that hold v
Count(s, v) == Cardinality({i \in DOMAIN s : s[i] = v})

RECURSIVE top_k(_, _, _)
\* the k most frequent values among uniq (first-occurrence order), each with
\* its frequency in column; ties go to the value that occurs first
top_k(column, uniq, k) ==
    IF k = 0 \/ uniq = <<>> THEN <<>>
    ELSE LET best == CHOOSE i \in DOMAIN uniq :
                        /\ \A j \in DOMAIN uniq : Count(column, uniq[j]) <= Count(column, uniq[i])
                        /\ \A j \in 1..(i - 1) : Count(column, uniq[j]) < Count(column, uniq[i])
         IN <<(<<uniq[best], Count(column, uniq[best])>>)>>
            \o top_k(column, Pop(uniq, best), k - 1)

RECURSIVE SumFreq(_)
SumFreq(top) == IF top = <<>> THEN 0 ELSE Head(top)[2] + SumFreq(Tail(top))

\* question_statistics counting the sentinel among the unique responses
question_statistics_keeps_sentinel(column) ==
    LET uniq == Distinct(column, {})
        top == top_k(column, uniq, TopK)
    IN  [num_responses |-> Len(column),
         num_unique_responses |-> Len(uniq),
         missing |-> Count(column, MissingSentinel),
         unique_responses |-> uniq,
         frac_numerical |->
             Frac(Cardinality({i \in DOMAIN column : ParsesAsNumber(column[i])}), Len(column)),
         top_5 |-> top,
         frac_obs_from_top_5 |-> Frac(SumFreq(top), Len(column))]

\* QuestionStatsModule.question_statistics for one column: the QuestionStats tuple
question_statistics(column) ==
    LET missing == Count(column, MissingSentinel)
        uniq == Distinct(column, {MissingSentinel})
        top == top_k(column, uniq, TopK)
        answered == Len(column) - missing
    IN  [num_responses |-> Len(column),
         num_unique_responses |-> Len(uniq),
         missing |-> missing,
         unique_responses |-> uniq,
         frac_numerical |->
             Frac(Cardinality({i \in DOMAIN column :
                                  column[i] # MissingSentinel /\ ParsesAsNumber(column[i])}),
                  answered),
         top_5 |-> top,
         frac_obs_from_top_5 |-> Frac(SumFreq(top), answered)]

\* The classifier with the numerical test made before the low-cardinality rule
infer_question_type_numerical_first(qt) ==
    IF FracGE(qt.frac_numerical, FRAC_NUMERICAL_THRESHOLD) THEN "numerical"
    ELSE IF qt.num_unique_responses <= NUM_UNIQUE_THRESHOLD THEN "multiple_choice"
    ELSE "free_text"

\* The classifier with the numerical threshold compared strictly
infer_question_type_strict(qt) ==
    IF qt.num_unique_responses <= NUM_UNIQUE_THRESHOLD
    THEN IF /\ FracGE(qt.frac_obs_from_top_5, MULTIPLE_CHOICE_OTHER_THRESHOLD)
            /\ qt.frac_obs_from_top_5.num < qt.frac_obs_from_top_5.den
         THEN "multiple_choice_with_other"
         ELSE "multiple_choice"
    ELSE IF ~FracGE(FRAC_NUMERICAL_THRESHOLD, qt.frac_numerical) THEN "numerical"
    ELSE "free_text"

\* QuestionTypeModule: the type inferred from a column's statistics; the first
\* rule that matches decides.
infer_question_type(qt) ==
    IF qt.num_unique_responses <= NUM_UNIQUE_THRESHOLD
    THEN IF /\ FracGE(qt.frac_obs_from_top_5, MULTIPLE_CHOICE_OTHER_THRESHOLD)
            /\ qt.frac_obs_from_top_5.num < qt.frac_obs_from_top_5.den
         THEN "multiple_choice_with_other"
         ELSE "multiple_choice"
    ELSE IF FracGE(qt.frac_numerical, FRAC_NUMERICAL_THRESHOLD) THEN "numerical"
    ELSE "free_text"

\* The types with options
ChoiceTypes == {"multiple_choice", "multiple_choice_with_other"}

\* QuestionOptionModule: the options of a column classified as question_type
infer_question_options(question_type, qt) ==
    IF question_type \in ChoiceTypes THEN Some(qt.unique_responses) ELSE None

----------------------------------------------------------------------------
(* Construction from the constructor's arguments and the file reader.      *)
(* Where names are repaired they are sequences of characters, so that      *)
(* str.replace and the identifier test act on their characters.            *)

Digits == {"0", "1", "2", "3", "4", "5", "6", "7", "8", "9"}

\* The characters of the inputs that cannot occur in an identifier
NonIdentifierChars == {"#", " ", "-"}

\* keyword.iskeyword, for the keywords among the inputs
Keywords == { <<"c", "l", "a", "s", "s">>, <<"i", "f">> }

\* str.isidentifier
isidentifier(name) ==
    /\ name # <<>>
    /\ name[1] \notin Digits
    /\ \A i \in DOMAIN name : name[i] \notin NonIdentifierChars

\* edsl.utilities.is_valid_variable_name(name, allow_name)
is_valid_variable_name(name, allow_name) ==
    /\ isidentifier(name)
    /\ name \notin Keywords
    /\ allow_name \/ name # <<"n", "a", "m", "e">>

RECURSIVE str_replace(_, _, _)
\* str.replace(old, new): every non-overlapping occurrence, left to right
str_replace(x, old, new) ==
    IF Len(x) < Len(old) THEN x
    ELSE IF SubSeq(x, 1, Len(old)) = old
         THEN new \o str_replace(SubSeq(x, Len(old) + 1, Len(x)), old, new)
         ELSE <<Head(x)>> \o str_replace(Tail(x), old, new)

\* default_repair_func of InputDataABC.__init__
default_repair_func(x) ==
    str_replace(
        str_replace(
            str_replace(x, <<"#">>, <<"_", "n", "u", "m">>),
            <<"c", "l", "a", "s", "s">>,
            <<"s", "o", "c", "i", "a", "l", "_", "c", "l", "a", "s", "s">>),
        <<"n", "a", "m", "e">>,
        <<"r", "e", "s", "p", "o", "n", "d", "e", "n", "t", "_", "n", "a", "m", "e">>)

KeysMismatch == "Exception: The keys of the answer_codebook must match the question_names."
LengthMismatch == "Exception: The question_names and question_texts must have the same length."
NotUnique == "ValueError: Question names must be unique."
NotIdentifier == "ValueError: Question names must be valid Python identifiers."

\* InputDataABC.question_names (setter): value is the constructor's argument,
\* reader_names what get_question_names() returns
question_names_setter(value, reader_names) ==
    IF value # None THEN [value |-> value[1], raised |-> NoException]
    ELSE
    IF Cardinality(Range(reader_names)) # Len(reader_names)
    THEN [value |-> <<>>, raised |-> NotUnique]
    ELSE
    LET repaired == [i \in DOMAIN reader_names |->
                        IF is_valid_variable_name(reader_names[i], FALSE)
                        THEN reader_names[i]
                        ELSE default_repair_func(reader_names[i])]
    IN  IF \E i \in DOMAIN repaired : ~is_valid_variable_name(repaired[i], FALSE)
        THEN [value |-> <<>>, raised |-> NotIdentifier]
        ELSE [value |-> repaired, raised |-> NoException]

\* The codebook test accepting a codebook that covers only some of the names
codebook_keys_differ_subset_ok(answer_codebook, question_names) ==
    ~(DOMAIN answer_codebook \subseteq Range(question_names))

\* InputDataABC.__init__: set(answer_codebook.keys()) != set(question_names)
codebook_keys_differ(answer_codebook, question_names) ==
    DOMAIN answer_codebook # Range(question_names)

\* InputDataABC.__init__.  args: the constructor's arguments (None: not passed);
\* reader: what get_question_names / get_question_texts / get_raw_data return.
\* The result is the batch (None when the constructor raised) and the exception.
__init__(args, reader) ==
    IF /\ args.answer_codebook # None
       /\ args.question_names # None
       /\ codebook_keys_differ(args.answer_codebook[1], args.question_names[1])
    THEN [b |-> None, raised |-> KeysMismatch]
    ELSE
    IF /\ args.question_names # None
       /\ args.question_texts # None
       /\ Len(args.question_names[1]) # Len(args.question_texts[1])
    THEN [b |-> None, raised |-> LengthMismatch]
    ELSE
    LET texts == IF args.question_texts = None THEN reader.question_texts
                 ELSE args.question_texts[1]
        set_names == question_names_setter(args.question_names, reader.question_names)
    IN  IF Raised(set_names) THEN [b |-> None, raised |-> set_names.raised]
        ELSE
        LET names == set_names.value
            codebook == IF args.answer_codebook = None THEN [n \in {} |-> EmptyMap]
                        ELSE args.answer_codebook[1]
            data == IF args.raw_data = None THEN reader.raw_data ELSE args.raw_data[1]
        IN  IF \E index \in DOMAIN names :
                  names[index] \in DOMAIN codebook /\ index > Len(data)
            THEN [b |-> None, raised |-> IndexError]
            ELSE
        LET b0 == construct(names, texts, <<>>, <<>>, data, codebook, IdOwner(Len(names)))
            types == IF args.question_types # None THEN args.question_types[1]
                     ELSE [i \in DOMAIN names |->
                              infer_question_type(question_statistics(b0.raw_data[i]))]
            options == IF args.question_options # None THEN args.question_options[1]
                       ELSE [i \in DOMAIN names |->
                                infer_question_options(types[i],
                                    question_statistics(b0.raw_data[i]))]
        IN  [b |-> Some([b0 EXCEPT !.question_types = types, !.question_options = options]),
             raised |-> NoException]

\* InputDataABC.to_dict: the keyword arguments from_dict hands to the constructor
to_dict(b) ==
    [question_names |-> Some(b.question_names),
     question_texts |-> Some(b.question_texts),
     answer_codebook |-> Some(b.answer_codebook),
     raw_data |-> Some(b.raw_data),
     question_types |-> Some(b.question_types),
     question_options |-> None]

\* InputDataABC.from_dict(d): cls(**d); with every list passed the reader is not asked
from_dict(d) ==
    __init__(d, [question_names |-> <<>>, question_texts |-> <<>>, raw_data |-> <<>>])

----------------------------------------------------------------------------
(* The calls a client makes on the constructed batch *)

\* The argument lists of drop: no name, one name, two names; names of the batch
\* and names that are not in it; a name twice.
DropLists ==
    {<<>>} \cup {<<x>> : x \in NamePool}
    \cup { <<"a", "b">>, <<"c", "a">>, <<"a", "d">>, <<"d", "a">>, <<"b", "b">> }

\* The argument lists of select: in the batch's order, in another order, a name
\* twice, a name that is not in the batch.
SelectLists ==
    { <<>>, <<"a">>, <<"c">>, <<"a", "b">>, <<"b", "a">>, <<"b", "c">>,
      <<"c", "c">>, <<"a", "d">> }

\* The rename_dict arguments of rename_questions, as items in insertion order.
RenameDicts ==
    { <<(<<"a", "d">>)>>,
      <<(<<"a", "b">>), (<<"b", "c">>)>>,
      <<(<<"a", "b">>), (<<"b", "a">>)>>,
      <<(<<"d", "a">>), (<<"b", "d">>)>>,
      <<(<<"b", "d">>), (<<"d", "a">>)>> }

\* The arguments of keep: names of the batch and names that are not in it.
KeepSets ==
    { {}, {"a"}, {"d"}, {"b", "c"}, {"a", "c", "d"}, {"a", "b", "c"} }

\* The indices arguments of _drop_rows (positions).
RowSets == SUBSET {1, 2}

\* A call of an editing method that touches only the batch.
Edit(op, r) ==
    /\ ncalls < MaxCalls
    /\ ncalls' = ncalls + 1
    /\ batch' = r.b
    /\ last' = Called(op, r.raised)
    /\ UNCHANGED <<errors, global_logger, other_errors>>

RenameCall(old_name, new_name, ignore_missing) ==
    Edit("rename", rename(batch, old_name, new_name, ignore_missing))

Rename ==
    \E old_name \in NamePool, new_name \in NamePool, ignore_missing \in BOOLEAN :
        RenameCall(old_name, new_name, ignore_missing)

RenameQuestionsCall(rename_dict, ignore_missing) ==
    Edit("rename_questions", rename_questions(batch, rename_dict, ignore_missing))

RenameQuestions ==
    \E rename_dict \in RenameDicts, ignore_missing \in BOOLEAN :
        RenameQuestionsCall(rename_dict, ignore_missing)

DropQuestionCall(question_name, ignore_missing) ==
    Edit("_drop_question", _drop_question(batch, question_name, ignore_missing))

DropQuestion ==
    \E question_name \in NamePool, ignore_missing \in BOOLEAN :
        DropQuestionCall(question_name, ignore_missing)

DropCall(question_names_to_drop) ==
    Edit("drop", drop(batch, question_names_to_drop))

Drop ==
    \E question_names_to_drop \in DropLists : DropCall(question_names_to_drop)

KeepCall(question_names_to_keep, ignore_missing) ==
    Edit("keep", keep(batch, question_names_to_keep, ignore_missing))

Keep ==
    \E question_names_to_keep \in KeepSets, ignore_missing \in BOOLEAN :
        KeepCall(question_names_to_keep, ignore_missing)

DropRowsCall(indices) ==
    Edit("_drop_rows", [b |-> _drop_rows(batch, indices), raised |-> NoException])

DropRows ==
    \E indices \in RowSets : DropRowsCall(indices)

DropMissingCall(question_name) ==
    Edit("drop_missing", drop_missing(batch, question_name))

DropMissing ==
    \E question_name \in NamePool : DropMissingCall(question_name)

ModifyQuestionTypeCall(question_name, new_type, drop_options, new_options) ==
    LET r == modify_question_type(batch, errors, question_name, new_type,
                                  drop_options, new_options)
    IN  /\ ncalls < MaxCalls
        /\ ncalls' = ncalls + 1
        /\ batch' = r.b
        /\ errors' = r.errors
        /\ last' = Called("modify_question_type", r.raised)
        /\ UNCHANGED <<global_logger, other_errors>>

ModifyQuestionType ==
    \E question_name \in NamePool, new_type \in TypeInputs,
       drop_options \in BOOLEAN, new_options \in OptionInputs :
        ModifyQuestionTypeCall(question_name, new_type, drop_options, new_options)

\* to_survey: every failed assembly is handed to the module-level log_creation_error,
\* which appends to the logger _global_logger refers to.
ToSurvey ==
    /\ ncalls < MaxCalls
    /\ ncalls' = ncalls + 1
    /\ IF global_logger = "self"
       THEN /\ errors' = errors \o creation_errors(batch)
            /\ UNCHANGED other_errors
       ELSE /\ other_errors' = other_errors \o creation_errors(batch)
            /\ UNCHANGED errors
    /\ last' = [Called("to_survey", NoException) EXCEPT
                   !.survey = to_survey(batch), !.results = questions(batch)]
    /\ UNCHANGED <<batch, global_logger>>

\* select: the constructor of the new batch makes a new logger and makes it the global one.
SelectCall(question_names) ==
    LET r == select(batch, question_names) IN
    /\ ncalls < MaxCalls
    /\ ncalls' = ncalls + 1
    /\ last' = [Called("select", r.raised) EXCEPT !.selected = r.selected]
    /\ IF Raised(r)
       THEN UNCHANGED <<global_logger, other_errors>>
       ELSE global_logger' = "other" /\ other_errors' = <<>>
    /\ UNCHANGED <<batch, errors>>

Select ==
    \E question_names \in SelectLists : SelectCall(question_names)

\* A second construction (another InputDataABC instance) sets the global logger.
ConstructOther ==
    /\ ncalls < MaxCalls
    /\ ncalls' = ncalls + 1
    /\ global_logger' = "other"
    /\ other_errors' = <<>>
    /\ last' = Called("construct", NoException)
    /\ UNCHANGED <<batch, errors>>

\* from_dict(to_dict()): the constructor stores the very list objects of this
\* batch, so its apply_codebook() writes the substituted columns into the
\* raw_data list that both instances share.
FromDict ==
    LET r == from_dict(to_dict(batch)) IN
    /\ ncalls < MaxCalls
    /\ ncalls' = ncalls + 1
    /\ IF Raised(r)
       THEN /\ last' = Called("from_dict", r.raised)
            /\ UNCHANGED <<batch, global_logger, other_errors>>
       ELSE /\ last' = [Called("from_dict", r.raised) EXCEPT
                           !.selected = Some([r.b[1] EXCEPT !.owner = batch.owner])]
            /\ batch' = [batch EXCEPT !.raw_data = r.b[1].raw_data]
            /\ global_logger' = "other"
            /\ other_errors' = <<>>
    /\ UNCHANGED errors

ToAgentList ==
    LET r == to_agent_list(batch, None, None, DefaultSeed, <<>>) IN
    /\ ncalls < MaxCalls
    /\ ncalls' = ncalls + 1
    /\ last' = [Called("to_agent_list", r.raised) EXCEPT !.agents = r.agents]
    /\ UNCHANGED <<batch, errors, global_logger, other_errors>>

Next ==
    \/ Rename
    \/ RenameQuestions
    \/ DropQuestion
    \/ Drop
    \/ Keep
    \/ DropRows
    \/ DropMissing
    \/ ModifyQuestionType
    \/ ToSurvey
    \/ Select
    \/ ConstructOther
    \/ FromDict
    \/ ToAgentList

Spec == Init /\ [][Next]_vars

----------------------------------------------------------------------------
(* Construction: one call of the constructor, of Conjure, or of the        *)
(* statistics and the classifier, on arguments drawn from the input sets.  *)

NameA == <<"a">>
NameB == <<"b">>
NameHash == <<"a", "#">>
NameNum == <<"a", "_", "n", "u", "m">>
NameClass == <<"c", "l", "a", "s", "s">>
NameName == <<"n", "a", "m", "e">>
NameDigit == <<"1", "a">>
Morning == <<"m", "o", "r", "n", "i", "n", "g">>
Feeling == <<"f", "e", "e", "l", "i", "n", "g">>

\* InputDataABC.example: what its reader returns
ExampleTexts == <<"how are you doing this morning?", "how are you feeling?">>
ExampleData == <<(<<"1", "4">>), (<<"3", "6">>)>>
ExampleReader ==
    [question_names |-> <<Morning, Feeling>>,
     question_texts |-> ExampleTexts,
     raw_data |-> ExampleData]

\* The lists of names a reader returns
NameListInputs ==
    { <<Morning, Feeling>>, <<NameA, NameB>>, <<NameA, NameA>>, <<NameA>>,
      <<NameHash, NameNum>>, <<NameHash, NameB>>, <<NameClass, NameName>>,
      <<NameDigit, NameB>> }

TextInputs == { ExampleTexts, <<"t1", "t2", "t3">> }

DataInputs == { ExampleData, <<(<<"1", "2", "missing">>), (<<"2", "2", "x">>)>> }

Readers ==
    { [question_names |-> n, question_texts |-> t, raw_data |-> d] :
        n \in NameListInputs, t \in TextInputs, d \in DataInputs }

HelloMap == ("1" :> "hello")

\* The answer_codebook arguments of a construction
CodebookArgs ==
    { None,
      Some([n \in {} |-> EmptyMap]),
      Some((NameA :> SwapMap) @@ (NameB :> ChainMap)),
      Some((NameA :> HelloMap)),
      Some((Morning :> HelloMap)) }

\* The arguments of a construction
CtorArgs ==
    { [question_names |-> n, question_texts |-> t, answer_codebook |-> cb,
       raw_data |-> None, question_types |-> None, question_options |-> None] :
        n \in {None, Some(<<NameA, NameB>>), Some(<<NameA, NameA>>), Some(<<NameA>>)},
        t \in {None} \cup {Some(x) : x \in TextInputs},
        cb \in CodebookArgs }

\* The largest number of distinct numeric responses of a generated column
MaxNumeric == 18

\* The largest number of distinct non-numeric responses of a generated column
MaxWords == 4

\* The largest number of missing responses of a generated column
MaxMissing == 2

\* Non-numeric responses
Words == <<"yes", "no", "maybe", "other", "never", "always">>

\* A column of n distinct numeric responses, then m distinct words, then k
\* missing responses
Column(n, m, k) ==
    [i \in 1..n |-> ToString(i - 1)] \o SubSeq(Words, 1, m)
        \o [i \in 1..k |-> MissingSentinel]

\* Columns handed to the statistics: generated ones, and ones with repeated
\* values and missing responses in between
ColumnInputs ==
    { Column(n, m, k) : n \in 0..MaxNumeric, m \in 0..MaxWords, k \in 0..MaxMissing }
    \cup { <<"1", "1", "2", "missing">>,
           <<"missing", "yes", "yes", "missing", "3">>,
           <<"1", "2", "3", "4", "5", "6", "6", "yes">>,
           <<"yes", "yes", "yes", "1", "2", "3", "4", "5", "6", "7">>,
           <<"1", "1", "1", "2", "3", "4", "5", "6", "7", "8", "9">> }

\* str.endswith
endswith(s, suffix) ==
    /\ Len(s) >= Len(suffix)
    /\ SubSeq(s, Len(s) - Len(suffix) + 1, Len(s)) = suffix

DotCsv == <<".", "c", "s", "v">>
DotSav == <<".", "s", "a", "v">>
DotDta == <<".", "d", "t", "a">>

Unsupported == "ValueError: Unsupported file type"

\* Conjure.__new__ testing the extension without regard to case
new_ignores_case(datafile_name) ==
    LET lower == [i \in DOMAIN datafile_name |->
                     CASE datafile_name[i] = "C" -> "c"
                       [] datafile_name[i] = "S" -> "s"
                       [] datafile_name[i] = "V" -> "v"
                       [] OTHER -> datafile_name[i]]
    IN  IF endswith(lower, DotCsv) THEN [cls |-> Some("InputDataCSV"), raised |-> NoException]
        ELSE IF endswith(lower, DotSav) THEN [cls |-> Some("InputDataSPSS"), raised |-> NoException]
        ELSE IF endswith(lower, DotDta) THEN [cls |-> Some("InputDataStata"), raised |-> NoException]
        ELSE [cls |-> None, raised |-> Unsupported]

\* Conjure.__new__: the class chosen for datafile_name, or the exception
__new__(datafile_name) ==
    IF endswith(datafile_name, DotCsv) THEN [cls |-> Some("InputDataCSV"), raised |-> NoException]
    ELSE IF endswith(datafile_name, DotSav) THEN [cls |-> Some("InputDataSPSS"), raised |-> NoException]
    ELSE IF endswith(datafile_name, DotDta) THEN [cls |-> Some("InputDataStata"), raised |-> NoException]
    ELSE [cls |-> None, raised |-> Unsupported]

\* File names handed to Conjure
FileNames ==
    { <<"a">> \o DotCsv, <<"a">> \o DotSav, <<"a">> \o DotDta,
      <<"a", ".", "x", "y", "z">>, <<"a", ".", "C", "S", "V">>,
      <<"c", "s", "v">>, DotCsv, <<"a">> \o DotCsv \o <<".", "b", "a", "k">>,
      <<"a">> \o DotSav \o DotDta, <<"a">> \o DotCsv \o <<" ">>, <<>> }

CtorInit ==
    /\ batch = None
    /\ errors = <<>>
    /\ global_logger = "none"
    /\ other_errors = <<>>
    /\ last = [op |-> "none", raised |-> NoException]
    /\ ncalls = 0

\* cls(datafile_name, config, **kwargs) on a reader
ConstructCall(args, reader) ==
    LET r == __init__(args, reader) IN
    /\ ncalls = 0
    /\ ncalls' = 1
    /\ batch' = r.b
    /\ last' = [op |-> "__init__", raised |-> r.raised, args |-> args, reader |-> reader]
    /\ global_logger' = IF Raised(r) THEN global_logger ELSE "self"
    /\ UNCHANGED <<errors, other_errors>>

Construct ==
    \E args \in CtorArgs, reader \in Readers : ConstructCall(args, reader)

\* question_statistics on one column
StatisticsCall(column) ==
    /\ ncalls = 0
    /\ ncalls' = 1
    /\ last' = [op |-> "question_statistics", raised |-> NoException,
                column |-> column, stats |-> question_statistics(column)]
    /\ UNCHANGED <<batch, errors, global_logger, other_errors>>

Statistics ==
    \E column \in ColumnInputs : StatisticsCall(column)

\* the type of one column, inferred from its statistics, asked for twice
ClassifyCall(column) ==
    LET qt == question_statistics(column) IN
    /\ ncalls = 0
    /\ ncalls' = 1
    /\ last' = [op |-> "infer_question_type", raised |-> NoException,
                stats |-> qt,
                type |-> infer_question_type(qt),
                again |-> infer_question_type(qt)]
    /\ UNCHANGED <<batch, errors, global_logger, other_errors>>

Classify ==
    \E column \in ColumnInputs : ClassifyCall(column)

\* Conjure(datafile_name, **args), the file holding what reader returns
ConjureCall(datafile_name, args, reader) ==
    LET n == __new__(datafile_name)
        r == __init__(args, reader)
    IN  /\ ncalls = 0
        /\ ncalls' = 1
        /\ IF Raised(n)
           THEN /\ last' = [op |-> "Conjure", raised |-> n.raised, cls |-> n.cls,
                            datafile_name |-> datafile_name]
                /\ UNCHANGED <<batch, global_logger>>
           ELSE /\ last' = [op |-> "Conjure", raised |-> r.raised, cls |-> n.cls,
                            datafile_name |-> datafile_name]
                /\ batch' = r.b
                /\ global_logger' = IF Raised(r) THEN global_logger ELSE "self"
        /\ UNCHANGED <<errors, other_errors>>

ConjureNew ==
    \E datafile_name \in FileNames, args \in CtorArgs, reader \in Readers :
        ConjureCall(datafile_name, args, reader)

\* The indices arguments of to_agent_list: none, the empty list, valid indices in
\* and out of order, an index past the last respondent, a negative index.
IndicesInputs ==
    { None, Some(<<>>), Some(<<0>>), Some(<<1, 0>>), Some(<<0, 2>>), Some(<<-1, 0>>) }

\* The sample_size arguments of to_agent_list
SampleSizeInputs == { None, Some(0), Some(2), Some(4) }

\* The seed arguments of to_agent_list
SeedInputs == { DefaultSeed, "other" }

\* to_agent_list(indices, sample_size, seed) on the batch just constructed
ToAgentListCall(indices, sample_size, seed, sample) ==
    LET r == to_agent_list(batch[1], indices, sample_size, seed, sample) IN
    /\ ncalls = 1
    /\ last.op = "__init__"
    /\ batch # None
    /\ ncalls' = 2
    /\ last' = [op |-> "to_agent_list", raised |-> r.raised, agents |-> r.agents,
                indices |-> indices, sample_size |-> sample_size, seed |-> seed]
    /\ UNCHANGED <<batch, errors, global_logger, other_errors>>

ToAgentListWith ==
    \E indices \in IndicesInputs, sample_size \in SampleSizeInputs, seed \in SeedInputs :
        \E sample \in IF /\ indices = None
                         /\ sample_size # None
                         /\ batch # None
                         /\ batch[1].raw_data # <<>>
                         /\ sample_size[1] <= num_observations(batch[1])
                      THEN Samples(num_observations(batch[1]), sample_size[1])
                      ELSE { <<>> } :
            ToAgentListCall(indices, sample_size, seed, sample)

CtorNext ==
    \/ Construct
    \/ Statistics
    \/ Classify
    \/ ConjureNew
    \/ ToAgentListWith

Construction == CtorInit /\ [][CtorNext]_vars



----------------------------------------------------------------------------
(* Properties *)

\* The list after list.pop(i), stated position by position.
IsWithout(after, before, i) ==
    /\ Len(after) = Len(before) - 1
    /\ \A j \in 1..(i - 1) : after[j] = before[j]
    /\ \A j \in i..Len(after) : after[j] = before[j + 1]

\* C1: after any sequence of rename, rename_questions, drop, keep,
\* modify_question_type, _drop_rows and drop_missing calls, also ones that end by
\* raising, question_names, question_texts, question_types, question_options and
\* raw_data have the same length and position i of every list belongs to the same
\* question (the one the element at position i was constructed for).
C1_ParallelListsInSync ==
    LET n == Len(batch.question_names) IN
    /\ Len(batch.question_texts) = n
    /\ Len(batch.question_types) = n
    /\ Len(batch.question_options) = n
    /\ Len(batch.raw_data) = n
    /\ \A i \in 1..n :
          /\ batch.owner.texts[i] = batch.owner.names[i]
          /\ batch.owner.types[i] = batch.owner.names[i]
          /\ batch.owner.options[i] = batch.owner.names[i]
          /\ batch.owner.data[i] = batch.owner.names[i]
          /\ batch.question_texts[i] = TextOf(InitNames[batch.owner.names[i]])

\* A drop of two names that removed the first and raised on the second.
C1_Witness ==
    /\ last.op = "drop"
    /\ Raised(last)
    /\ ncalls = 1
    /\ Len(batch.question_names) = Len(InitNames) - 1

\* C2: drop(q) for an existing name q at index i removes exactly the element at
\* index i from each of the five lists and removes q's codebook entry; the number
\* of questions decreases by 1 and every other question keeps its name, text,
\* type, options, responses and relative order.
C2_DropRemovesOneQuestion ==
    [][\A q \in NamePool :
          (last'.op = "drop" /\ q \in Range(batch.question_names) /\ DropCall(<<q>>)) =>
             LET i == Index(batch.question_names, q) IN
             /\ ~Raised(last')
             /\ Len(batch'.question_names) = Len(batch.question_names) - 1
             /\ IsWithout(batch'.question_names, batch.question_names, i)
             /\ IsWithout(batch'.question_texts, batch.question_texts, i)
             /\ IsWithout(batch'.question_types, batch.question_types, i)
             /\ IsWithout(batch'.question_options, batch.question_options, i)
             /\ IsWithout(batch'.raw_data, batch.raw_data, i)
             /\ DOMAIN batch'.answer_codebook = DOMAIN batch.answer_codebook \ {q}
             /\ \A k \in DOMAIN batch'.answer_codebook :
                   batch'.answer_codebook[k] = batch.answer_codebook[k]
      ]_vars

\* A drop of one existing question, the first call on a batch that holds a
\* codebook entry for every question.
C2_Witness ==
    /\ last.op = "drop"
    /\ ~Raised(last)
    /\ ncalls = 1
    /\ Len(batch.question_names) = Len(InitNames) - 1
    /\ Cardinality(DOMAIN batch.answer_codebook) = Len(InitNames) - 1


\* C3: rename(old, new) for an existing name old leaves the length of
\* question_names unchanged, puts new at the position old had, and afterwards the
\* codebook holds under key new exactly the entry it held under old and has no key
\* old (for new different from old); no codebook entry of any question is lost.
C3_RenameMovesCodebookEntry ==
    [][\A old_name \in NamePool, new_name \in NamePool, ignore_missing \in BOOLEAN :
          (/\ last'.op = "rename"
           /\ old_name \in Range(batch.question_names)
           /\ RenameCall(old_name, new_name, ignore_missing)) =>
             LET i == Index(batch.question_names, old_name) IN
             /\ Len(batch'.question_names) = Len(batch.question_names)
             /\ batch'.question_names[i] = new_name
             /\ old_name \in DOMAIN batch.answer_codebook =>
                   /\ new_name \in DOMAIN batch'.answer_codebook
                   /\ batch'.answer_codebook[new_name] = batch.answer_codebook[old_name]
             /\ new_name # old_name => old_name \notin DOMAIN batch'.answer_codebook
             /\ \A k \in DOMAIN batch.answer_codebook \ {old_name} :
                   /\ k \in DOMAIN batch'.answer_codebook
                   /\ batch'.answer_codebook[k] = batch.answer_codebook[k]
      ]_vars

\* C4: select(n1, ..., nk) returns a batch that contains exactly the named
\* questions, each with its original text, type, options and responses, the kept
\* questions in the same relative order as in the original batch, whatever the
\* order of the arguments.
C4_SelectKeepsQuestionsInOrder ==
    [][\A question_names \in SelectLists :
          (/\ last'.op = "select"
           /\ ~Raised(last')
           /\ Cardinality(Range(question_names)) = Len(question_names)
           /\ SelectCall(question_names)) =>
             LET sb == last'.selected[1] IN
             /\ Range(sb.question_names) = Range(question_names)
             /\ \A k \in DOMAIN sb.question_names :
                   LET i == Index(batch.question_names, sb.question_names[k]) IN
                   /\ sb.question_texts[k] = batch.question_texts[i]
                   /\ sb.question_types[k] = batch.question_types[i]
                   /\ sb.question_options[k] = batch.question_options[i]
                   /\ sb.raw_data[k] = batch.raw_data[i]
             /\ \A k1, k2 \in DOMAIN sb.question_names :
                   k1 < k2 => Index(batch.question_names, sb.question_names[k1])
                                < Index(batch.question_names, sb.question_names[k2])
      ]_vars

\* C5: rename(old, new) and _drop_question(q) called with a name that is not in
\* question_names raise ValueError when ignore_missing is false and return
\* normally when it is true; in both cases the batch (names, texts, types,
\* options, raw_data, codebook) is unchanged.
C5_MissingNameLeavesBatchUnchanged ==
    [][\A nm \in NamePool, ignore_missing \in BOOLEAN :
          (/\ last'.op \in {"rename", "_drop_question"}
           /\ nm \notin Range(batch.question_names)) =>
             /\ \A new_name \in NamePool :
                   RenameCall(nm, new_name, ignore_missing) =>
                      /\ batch' = batch
                      /\ last'.raised = IF ignore_missing THEN NoException ELSE NotFound
             /\ DropQuestionCall(nm, ignore_missing) =>
                   /\ batch' = batch
                   /\ last'.raised = IF ignore_missing THEN NoException ELSE NotFound
      ]_vars

\* A rename of a name that is not in the batch has raised ValueError.
C5_Witness ==
    /\ last.op = "rename"
    /\ last.raised = NotFound

\* C6: modify_question_type(q, t, ...) with a type name t that is not registered
\* raises ValueError, and the type and options of every question are the same
\* after the call as before it, whatever drop_options and new_options were.
C6_UnregisteredTypeRejected ==
    [][\A question_name \in NamePool, new_type \in TypeInputs \ Registry,
          drop_options \in BOOLEAN, new_options \in OptionInputs :
          (/\ last'.op = "modify_question_type"
           /\ ModifyQuestionTypeCall(question_name, new_type, drop_options, new_options))
          =>
             /\ Raised(last')
             /\ batch'.question_types = batch.question_types
             /\ batch'.question_options = batch.question_options
      ]_vars

\* modify_question_type has raised on an unregistered type for an existing question.
C6_Witness ==
    /\ last.op = "modify_question_type"
    /\ last.raised = NotAvailable

\* The options question_name would be assembled with after the call's assignments.
ResultingOptions(question_name, drop_options, new_options) ==
    IF new_options # None THEN new_options
    ELSE IF drop_options THEN None
    ELSE batch.question_options[Index(batch.question_names, question_name)]

\* C7: when modify_question_type(q, t, drop_options, new_options) sets a
\* registered type with which the question cannot be assembled, the call does not
\* raise, the types and options are exactly as before the call, and exactly one
\* error entry naming q is appended to the batch's own error log.
C7_FailedModificationReverts ==
    [][\A question_name \in NamePool, new_type \in Registry,
          drop_options \in BOOLEAN, new_options \in OptionInputs :
          (/\ last'.op = "modify_question_type"
           /\ question_name \in Range(batch.question_names)
           /\ new_type \in RequiresOptions
           /\ LET opts == ResultingOptions(question_name, drop_options, new_options)
              IN opts = None \/ opts[1] = <<>>
           /\ ModifyQuestionTypeCall(question_name, new_type, drop_options, new_options))
          =>
             /\ ~Raised(last')
             /\ batch' = batch
             /\ Len(errors') = Len(errors) + 1
             /\ SubSeq(errors', 1, Len(errors)) = errors
             /\ errors'[Len(errors')].question_name = question_name
      ]_vars

\* A modify_question_type call that returned after logging its failed assembly.
C7_Witness ==
    /\ last.op = "modify_question_type"
    /\ ~Raised(last)
    /\ errors # <<>>
    /\ errors[Len(errors)].error_type = "Question Type Modification Failed"

\* The positions whose question cannot be assembled (RawQuestion.to_question raises).
FailingPositions(b) ==
    {k \in DOMAIN b.question_names : to_question_raises(raw_question(b, k))}

\* C8: questions() produces one result per entry of question_names, in order: None
\* for a question whose assembly raises, which is logged once, and the assembled
\* question otherwise; to_survey does not raise and its survey holds exactly the
\* successfully assembled questions, in order, under the batch's current names.
C8_OneResultPerQuestion ==
    [][ToSurvey =>
          LET failing == FailingPositions(batch)
              logged == IF global_logger = "self"
                        THEN SubSeq(errors', Len(errors) + 1, Len(errors'))
                        ELSE SubSeq(other_errors', Len(other_errors) + 1,
                                    Len(other_errors'))
          IN
          /\ ~Raised(last')
          /\ Len(last'.results) = Len(batch.question_names)
          /\ \A k \in DOMAIN batch.question_names :
                last'.results[k] =
                    IF k \in failing THEN None ELSE Some(raw_question(batch, k))
          /\ Len(logged) = Cardinality(failing)
          /\ \A k \in failing :
                Cardinality({j \in DOMAIN logged :
                    logged[j].question_name = batch.question_names[k]})
                = Cardinality({j \in failing :
                    batch.question_names[j] = batch.question_names[k]})
          /\ last'.survey =
                SelectPositions([k \in DOMAIN batch.question_names |->
                                    raw_question(batch, k)],
                                DOMAIN batch.question_names \ failing, 1)
      ]_vars

\* C9: every assembly failure that occurs during to_survey of a batch is recorded
\* in that batch's own question_error_logger (its get_error_count grows by the
\* number of failures and get_failed_questions names them), also when other
\* batches were constructed before the call.
C9_FailuresLoggedInOwnLogger ==
    [][ToSurvey =>
          LET failed == {k \in DOMAIN last'.results : last'.results[k] = None} IN
          /\ Len(errors') = Len(errors) + Cardinality(failed)
          /\ \A k \in failed :
                \E j \in (Len(errors) + 1)..Len(errors') :
                    errors'[j].question_name = batch.question_names[k]
      ]_vars

\* The names of the questions that a to_survey call has logged as failed and that
\* still cannot be assembled: the omitted questions.
Omitted ==
    {batch.question_names[k] : k \in
        {k \in FailingPositions(batch) :
            \E e \in Range(errors) \cup Range(other_errors) :
                /\ e.error_type = "Creation Failed"
                /\ e.question_name = batch.question_names[k]}}

\* C10: a question whose assembly failed (state Omitted) is excluded from all
\* downstream output: it appears neither in the survey returned by to_survey nor
\* among the traits of any agent returned by agent / to_agent_list.
C10_OmittedExcludedEverywhere ==
    /\ last.op = "to_survey" =>
          \A k \in DOMAIN last.survey : last.survey[k].question_name \notin Omitted
    /\ (last.op = "to_agent_list" /\ ~Raised(last)) =>
          \A i \in DOMAIN last.agents : DOMAIN last.agents[i] \cap Omitted = {}


\* C11: a construction with both question_names and answer_codebook supplied
\* raises, and produces no batch, whenever the set of codebook keys differs from
\* the set of question names; when the two sets are equal this check does not raise.
C11_CodebookKeysMustMatchNames ==
    (/\ last.op = "__init__"
     /\ last.args.question_names # None
     /\ last.args.answer_codebook # None) =>
        IF DOMAIN last.args.answer_codebook[1] # Range(last.args.question_names[1])
        THEN last.raised = KeysMismatch /\ batch = None
        ELSE last.raised # KeysMismatch

\* A construction with names a, b and a codebook for a alone has raised.
C11_Witness ==
    /\ last.op = "__init__"
    /\ last.raised = KeysMismatch
    /\ last.args.question_names = Some(<<NameA, NameB>>)
    /\ DOMAIN last.args.answer_codebook[1] = {NameA}


\* The names and the texts a construction works with: the argument when it was
\* passed, what the file reader returns otherwise.
GivenNames ==
    IF last.args.question_names = None THEN last.reader.question_names
    ELSE last.args.question_names[1]

GivenTexts ==
    IF last.args.question_texts = None THEN last.reader.question_texts
    ELSE last.args.question_texts[1]

\* C12: a construction whose question names and question texts have different
\* lengths raises and produces no batch, whether each list was passed to the
\* constructor or obtained from the file reader.
C12_LengthMismatchRaises ==
    (last.op = "__init__" /\ Len(GivenNames) # Len(GivenTexts)) =>
        Raised(last) /\ batch = None

\* C13: a construction whose question names contain a duplicate raises and
\* produces no batch, whether the names were passed as question_names or
\* obtained from the file reader.
C13_DuplicateNamesRaise ==
    (last.op = "__init__" /\ Cardinality(Range(GivenNames)) # Len(GivenNames)) =>
        Raised(last) /\ batch = None

\* C14: when the names come from the file reader, every name that is not a valid
\* identifier is passed through the repair function; the construction raises
\* ValueError if a repaired name is still invalid, and otherwise the resulting
\* question_names are all valid identifiers and pairwise distinct.
C14_RepairedNamesValidAndDistinct ==
    (last.op = "__init__" /\ last.args.question_names = None) =>
        LET names == last.reader.question_names
            repaired == [i \in DOMAIN names |->
                            IF is_valid_variable_name(names[i], FALSE) THEN names[i]
                            ELSE default_repair_func(names[i])]
        IN  /\ (\E i \in DOMAIN names : ~is_valid_variable_name(repaired[i], FALSE))
                  => last.raised \in {NotIdentifier, NotUnique}
            /\ ~Raised(last) =>
                  /\ batch[1].question_names = repaired
                  /\ \A i \in DOMAIN repaired : is_valid_variable_name(repaired[i], FALSE)
                  /\ Cardinality(Range(batch[1].question_names))
                        = Len(batch[1].question_names)


\* The raw_data and the codebook a construction works with.
GivenData ==
    IF last.args.raw_data = None THEN last.reader.raw_data ELSE last.args.raw_data[1]

GivenCodebook ==
    IF last.args.answer_codebook = None THEN [n \in {} |-> EmptyMap]
    ELSE last.args.answer_codebook[1]

\* C15: apply_codebook replaces, in every column whose question name is a
\* codebook key, each response that is a key of that question's mapping by the
\* mapped value and leaves every other response unchanged; columns without a
\* codebook entry are unchanged, and every column keeps its length and order.
C15_CodebookSubstitutesPerValue ==
    (last.op = "__init__" /\ ~Raised(last)) =>
        LET b == batch[1] IN
        /\ Len(b.raw_data) = Len(GivenData)
        /\ \A index \in DOMAIN GivenData :
              /\ Len(b.raw_data[index]) = Len(GivenData[index])
              /\ \A j \in DOMAIN GivenData[index] :
                    LET r == GivenData[index][j]
                        mapped == /\ index \in DOMAIN b.question_names
                                  /\ b.question_names[index] \in DOMAIN GivenCodebook
                                  /\ r \in DOMAIN GivenCodebook[b.question_names[index]]
                    IN b.raw_data[index][j] =
                          IF mapped THEN GivenCodebook[b.question_names[index]][r] ELSE r

\* A batch was built with a codebook that swaps "1" and "2" in column a and
\* maps "2" to "1" and "1" to "missing" in column b.
C15_Witness ==
    /\ last.op = "__init__"
    /\ ~Raised(last)
    /\ GivenCodebook = (NameA :> SwapMap) @@ (NameB :> ChainMap)
    /\ batch[1].raw_data # GivenData
    /\ \E index \in DOMAIN GivenData : "2" \in Range(GivenData[index])


\* C16: the codebook substitution is applied once over the lifetime of the data:
\* no rename, drop, keep, select, modify_question_type or to_dict followed by
\* from_dict applies it again, so the responses of every kept question, in the
\* batch and in the batch a select or from_dict returns, are identical before
\* and after the call.
C16_CodebookNeverReapplied ==
    [][(last'.op \in {"rename", "rename_questions", "drop", "keep",
                      "modify_question_type", "select", "from_dict"}) =>
          /\ \A i \in DOMAIN batch'.raw_data, j \in DOMAIN batch.raw_data :
                batch'.owner.data[i] = batch.owner.data[j]
                   => batch'.raw_data[i] = batch.raw_data[j]
          /\ last'.selected # None =>
                \A k \in DOMAIN last'.selected[1].raw_data, j \in DOMAIN batch.raw_data :
                    last'.selected[1].owner.data[k] = batch.owner.data[j]
                       => last'.selected[1].raw_data[k] = batch.raw_data[j]
      ]_vars


\* InputDataABC.example() has been called: no argument passed, the example reader.
ExampleBuilt ==
    /\ last.op = "__init__"
    /\ last.reader = ExampleReader
    /\ last.args.question_names = None
    /\ last.args.question_texts = None
    /\ last.args.answer_codebook = None

\* C17: for the example batch, with column ["1","4"] for 'morning' and ["3","6"]
\* for 'feeling' and no codebook, both questions are classified as numerical and
\* num_observations is 2.
C17_ExampleClassifiedNumerical ==
    ExampleBuilt =>
        /\ ~Raised(last)
        /\ batch[1].question_types = <<"numerical", "numerical">>
        /\ num_observations(batch[1]) = Len(ExampleData[1])

\* C17 as amended: for the example batch both questions are classified as
\* multiple_choice (two unique values: the low-cardinality rule matches first),
\* with the two values as options, and num_observations is 2.
C17_ExampleClassifiedMultipleChoice ==
    ExampleBuilt =>
        /\ ~Raised(last)
        /\ batch[1].question_names = <<Morning, Feeling>>
        /\ batch[1].raw_data = ExampleData
        /\ batch[1].question_types = <<"multiple_choice", "multiple_choice">>
        /\ batch[1].question_options = <<Some(<<"1", "4">>), Some(<<"3", "6">>)>>
        /\ num_observations(batch[1]) = Len(ExampleData[1])

\* The example batch has been built.
C17_Witness ==
    /\ ExampleBuilt
    /\ batch # None
    /\ Len(batch[1].question_types) = Len(ExampleData)


\* A fraction between 0 and 1
InUnitInterval(x) == x.den > 0 /\ 0 <= x.num /\ x.num <= x.den

\* A column without any answered response: empty, or all missing
Degenerate(column) == \A i \in DOMAIN column : column[i] = MissingSentinel

\* C18: for every column, the statistics satisfy missing + (number of non-missing
\* responses) = num_responses, unique_responses does not contain the missing
\* sentinel, and frac_numerical and frac_obs_from_top_5 lie in [0,1]; for a column
\* that is empty or all missing they are 0 and no exception is raised.
C18_StatisticsWellFormed ==
    last.op = "question_statistics" =>
        LET column == last.column
            qt == last.stats
        IN  /\ ~Raised(last)
            /\ qt.num_responses = Len(column)
            /\ qt.missing + Cardinality({i \in DOMAIN column : column[i] # MissingSentinel})
                   = qt.num_responses
            /\ MissingSentinel \notin Range(qt.unique_responses)
            /\ InUnitInterval(qt.frac_numerical)
            /\ InUnitInterval(qt.frac_obs_from_top_5)
            /\ Degenerate(column) =>
                   /\ qt.frac_numerical.num = 0
                   /\ qt.frac_obs_from_top_5.num = 0

\* The statistics of a column of missing responses only have been computed.
C18_Witness ==
    /\ last.op = "question_statistics"
    /\ last.column # <<>>
    /\ Degenerate(last.column)
    /\ last.stats.missing = Len(last.column)

C20_ConjureDispatchesOnExtension ==
    last.op = "Conjure" =>
        LET name == last.datafile_name
            n == Len(name)
            ext == IF n >= 4 THEN SubSeq(name, n - 3, n) ELSE <<>>
        IN  CASE ext = <<".", "c", "s", "v">> ->
                     /\ last.cls = Some("InputDataCSV")
                     /\ last.raised # Unsupported
                     /\ ~Raised(last) => batch # None
              [] ext = <<".", "s", "a", "v">> ->
                     /\ last.cls = Some("InputDataSPSS")
                     /\ last.raised # Unsupported
                     /\ ~Raised(last) => batch # None
              [] ext = <<".", "d", "t", "a">> ->
                     /\ last.cls = Some("InputDataStata")
                     /\ last.raised # Unsupported
                     /\ ~Raised(last) => batch # None
              [] OTHER ->
                     /\ last.raised = Unsupported
                     /\ last.cls = None
                     /\ batch = None
                     /\ global_logger = "none"

\* Conjure has refused a name that holds a supported extension, though not at
\* its end.
C20_Witness ==
    /\ last.op = "Conjure"
    /\ last.raised = Unsupported
    /\ \E i \in 1..(Len(last.datafile_name) - 4) :
           SubSeq(last.datafile_name, i, i + 3) = <<".", "c", "s", "v">>
    /\ batch = None


\* C21: to_agent_list() with no indices and no sample_size returns exactly
\* num_observations agents, in respondent order, and the agent for respondent i
\* has as traits exactly one entry per current question name, mapping the name of
\* the question at position j to raw_data[j][i].
C21_OneAgentPerRespondent ==
    (/\ last.op = "to_agent_list"
     /\ batch.raw_data # <<>>) =>
        /\ ~Raised(last)
        /\ Len(last.agents) = num_observations(batch)
        /\ \A i \in DOMAIN last.agents :
              /\ DOMAIN last.agents[i] = Range(batch.question_names)
              /\ \A j \in DOMAIN batch.question_names :
                    last.agents[i][batch.question_names[j]] = batch.raw_data[j][i]


\* The ValueErrors of to_agent_list
AgentListValueErrors ==
    { MutuallyExclusive, EmptyIndices, IndexTooLarge, IndexNegative, SampleTooLarge }

\* C22: to_agent_list raises ValueError, and returns no agents, when indices
\* contains an index >= num_observations or < 0, when sample_size >
\* num_observations, and when indices is passed together with a sample_size or a
\* non-default seed.
C22_BadAgentArgumentsRaise ==
    (/\ last.op = "to_agent_list"
     /\ "indices" \in DOMAIN last
     /\ batch[1].raw_data # <<>>) =>
        LET n == num_observations(batch[1])
            indices == last.indices
            sample_size == last.sample_size
        IN  (\/ /\ indices # None
                /\ \E i \in DOMAIN indices[1] : indices[1][i] >= n \/ indices[1][i] < 0
             \/ /\ sample_size # None
                /\ sample_size[1] > n
             \/ /\ indices # None
                /\ sample_size # None \/ last.seed # DefaultSeed)
            => /\ last.raised \in AgentListValueErrors
               /\ last.agents = <<>>

\* C30: to_agent_list(indices=[]) raises ValueError('Indices must be a non-empty
\* list.') instead of returning an agent list.
C30_EmptyIndicesRaise ==
    (/\ last.op = "to_agent_list"
     /\ "indices" \in DOMAIN last
     /\ last.indices = Some(<<>>)
     /\ last.sample_size = None
     /\ last.seed = DefaultSeed) =>
        last.raised = EmptyIndices


\* The names of b are pairwise distinct.
NamesDistinct(b) == Cardinality(Range(b.question_names)) = Len(b.question_names)

\* C23: starting from a batch whose question names are pairwise distinct, the
\* names remain pairwise distinct after any sequence of rename, rename_questions,
\* drop and keep calls, so that a name always identifies exactly one question.
C23_NamesStayDistinct ==
    [][(/\ last'.op \in {"rename", "rename_questions", "drop", "keep"}
        /\ NamesDistinct(batch))
       => NamesDistinct(batch')]_vars


\* The k-th smallest element of a set of positions
NthOf(positions, k) ==
    CHOOSE p \in positions : Cardinality({q \in positions : q < p}) = k - 1

\* C24: keep(n1, ..., nk) leaves in the batch exactly the questions whose name is
\* among the arguments, in their original relative order and each with its
\* original text, type, options and responses, and removes every other question
\* from all parallel lists and from the codebook; argument names that are not in
\* the batch are ignored without error.
C24_KeepLeavesExactlyTheNamed ==
    [][\A question_names_to_keep \in KeepSets, ignore_missing \in BOOLEAN :
          (/\ last'.op = "keep"
           /\ KeepCall(question_names_to_keep, ignore_missing))
          => LET kept == {j \in DOMAIN batch.question_names :
                             batch.question_names[j] \in question_names_to_keep}
                 n == Cardinality(kept)
             IN  /\ ~Raised(last')
                 /\ Len(batch'.question_names) = n
                 /\ Len(batch'.question_texts) = n
                 /\ Len(batch'.question_types) = n
                 /\ Len(batch'.question_options) = n
                 /\ Len(batch'.raw_data) = n
                 /\ \A k \in 1..n :
                       LET j == NthOf(kept, k) IN
                       /\ batch'.question_names[k] = batch.question_names[j]
                       /\ batch'.question_texts[k] = batch.question_texts[j]
                       /\ batch'.question_types[k] = batch.question_types[j]
                       /\ batch'.question_options[k] = batch.question_options[j]
                       /\ batch'.raw_data[k] = batch.raw_data[j]
                 /\ DOMAIN batch'.answer_codebook
                       = DOMAIN batch.answer_codebook
                            \ (Range(batch.question_names) \ question_names_to_keep)
                 /\ \A qn \in DOMAIN batch'.answer_codebook :
                       batch'.answer_codebook[qn] = batch.answer_codebook[qn]
                 /\ errors' = errors]_vars

\* keep has been called with a name that is not in the batch among its
\* arguments, and has left the first and the third question.
C24_Witness ==
    /\ last.op = "keep"
    /\ ~Raised(last)
    /\ batch.question_names = <<"a", "c">>
    /\ batch.raw_data = <<RawInput[1], RawInput[3]>>


\* C25: a modify_question_type(q, t, drop_options, new_options) call that
\* succeeds sets q's type to t and q's options to new_options if given, else to
\* None if drop_options is true, else leaves them unchanged, and changes nothing
\* else: names, texts, responses, the codebook and the type and options of every
\* other question are as before, and no error is logged.
C25_SuccessfulModificationFrame ==
    [][\A question_name \in NamePool, new_type \in Registry,
          drop_options \in BOOLEAN, new_options \in OptionInputs :
          (/\ last'.op = "modify_question_type"
           /\ question_name \in Range(batch.question_names)
           /\ LET opts == ResultingOptions(question_name, drop_options, new_options)
              IN new_type \in RequiresOptions => (opts # None /\ opts[1] # <<>>)
           /\ ModifyQuestionTypeCall(question_name, new_type, drop_options, new_options))
          =>
             LET idx == Index(batch.question_names, question_name) IN
             /\ ~Raised(last')
             /\ batch'.question_types[idx] = new_type
             /\ batch'.question_options[idx] =
                   IF new_options # None THEN new_options
                   ELSE IF drop_options THEN None
                   ELSE batch.question_options[idx]
             /\ Len(batch'.question_types) = Len(batch.question_types)
             /\ Len(batch'.question_options) = Len(batch.question_options)
             /\ \A j \in DOMAIN batch.question_names \ {idx} :
                   /\ batch'.question_types[j] = batch.question_types[j]
                   /\ batch'.question_options[j] = batch.question_options[j]
             /\ batch'.question_names = batch.question_names
             /\ batch'.question_texts = batch.question_texts
             /\ batch'.raw_data = batch.raw_data
             /\ batch'.answer_codebook = batch.answer_codebook
             /\ errors' = errors
             /\ other_errors' = other_errors
      ]_vars

\* A modify_question_type call has succeeded and left a free_text question with
\* the options passed as new_options.
C25_Witness ==
    /\ last.op = "modify_question_type"
    /\ ~Raised(last)
    /\ errors = <<>>
    /\ \E idx \in DOMAIN batch.question_names :
          /\ batch.question_types[idx] = "free_text"
          /\ batch.question_options[idx] = Some(<<"1", "2">>)


\* C26: drop_missing(q) removes, from every column, exactly the respondent
\* positions at which q's response equals the literal 'missing': afterwards all
\* columns still have one common length, num_observations has decreased by the
\* number of such positions, q's column contains no 'missing', and the remaining
\* respondents keep their answers aligned across columns in their original order.
C26_DropMissingRemovesRows ==
    [][\A question_name \in NamePool :
          (/\ last'.op = "drop_missing"
           /\ question_name \in Range(batch.question_names)
           /\ DropMissingCall(question_name))
          =>
             LET idx == Index(batch.question_names, question_name)
                 gone == {i \in DOMAIN batch.raw_data[idx] :
                             batch.raw_data[idx][i] = "missing"}
                 stay == DOMAIN batch.raw_data[idx] \ gone
             IN  /\ ~Raised(last')
                 /\ Len(batch'.raw_data) = Len(batch.raw_data)
                 /\ num_observations(batch')
                       = num_observations(batch) - Cardinality(gone)
                 /\ \A c \in DOMAIN batch.raw_data :
                       /\ Len(batch'.raw_data[c]) = Cardinality(stay)
                       /\ \A k \in 1..Cardinality(stay) :
                             batch'.raw_data[c][k] = batch.raw_data[c][NthOf(stay, k)]
                 /\ "missing" \notin Range(batch'.raw_data[idx])
                 /\ batch'.question_names = batch.question_names
                 /\ batch'.question_texts = batch.question_texts
                 /\ batch'.question_types = batch.question_types
                 /\ batch'.question_options = batch.question_options
                 /\ batch'.answer_codebook = batch.answer_codebook
      ]_vars

\* drop_missing has removed one of the two respondents: every column is left
\* with one response and the first question's is not 'missing'.
C26_Witness ==
    /\ last.op = "drop_missing"
    /\ ~Raised(last)
    /\ ncalls = 1
    /\ \A c \in DOMAIN batch.raw_data : Len(batch.raw_data[c]) = 1
    /\ batch.raw_data[1] # <<"missing">>
    /\ batch.raw_data[3] = <<"missing">>


\* The value rename_dict (items in insertion order) holds for key k
ValueOf(rename_dict, k) ==
    rename_dict[CHOOSE i \in DOMAIN rename_dict : rename_dict[i][1] = k][2]

\* C27: rename_questions(d), for a mapping d whose keys are names of existing
\* questions, results in every question that was named k before the call being
\* named d[k] after it and every other question keeping its name, also when a
\* value of d is itself a key of d (chains such as {a: b, b: c} and swaps such as
\* {a: b, b: a}).
C27_RenameQuestionsIsSimultaneous ==
    [][\A rename_dict \in RenameDicts, ignore_missing \in BOOLEAN :
          (/\ last'.op = "rename_questions"
           /\ \A i \in DOMAIN rename_dict : rename_dict[i][1] \in Range(batch.question_names)
           /\ RenameQuestionsCall(rename_dict, ignore_missing))
          =>
             LET keys == {rename_dict[i][1] : i \in DOMAIN rename_dict} IN
             /\ ~Raised(last')
             /\ Len(batch'.question_names) = Len(batch.question_names)
             /\ \A j \in DOMAIN batch.question_names :
                   batch'.question_names[j] =
                       IF batch.question_names[j] \in keys
                       THEN ValueOf(rename_dict, batch.question_names[j])
                       ELSE batch.question_names[j]
      ]_vars


\* C28: a call drop(n1, ..., nk) or rename_questions(d) that raises ValueError
\* because one of the names is not in the batch leaves the batch unchanged: no
\* question named earlier in the same call has been dropped or renamed.
C28_FailedCallLeavesBatchUnchanged ==
    [][(/\ last'.op \in {"drop", "rename_questions"}
        /\ last'.raised = NotFound)
       => batch' = batch]_vars


\* C29: after any sequence of to_survey and modify_question_type calls on a
\* batch, the number the error summary reports as 'questions had processing
\* issues and were omitted' (get_error_count of the batch's logger) equals the
\* number of questions of the batch that are omitted from the survey returned by
\* the latest to_survey call; the log only grows, has_errors holds exactly when
\* the count is positive, and get_failed_questions lists the logged names in
\* logging order.  (Stated for the first and the second call of a sequence.)
C29_ErrorCountIsOmittedCount ==
    [][(/\ last'.op \in {"to_survey", "modify_question_type"}
        /\ \/ ncalls = 0
           \/ ncalls = 1 /\ last.op \in {"to_survey", "modify_question_type"})
       =>
          /\ Len(errors') >= Len(errors)
          /\ SubSeq(errors', 1, Len(errors)) = errors
          /\ has_errors(errors') <=> get_error_count(errors') > 0
          /\ get_failed_questions(errors')
                = [i \in DOMAIN errors' |-> errors'[i].question_name]
          /\ last'.op = "to_survey" =>
                get_error_count(errors')
                    = Len(batch'.question_names) - Len(last'.survey)]_vars


====
